---- MODULE Spec2Model ----
(***************************************************************************)
(* VoipClient (src/voip_client.cc, src/voip_client.h): a session           *)
(* controller whose state is confined to one worker thread, voip_thread_.  *)
(* Public calls made on another thread are posted to the thread's FIFO     *)
(* task queue by RUN_ON_VOIP_THREAD; the worker runs one task at a time,   *)
(* to completion.  A handler is therefore one atomic action here; what it  *)
(* does inside (engine calls, socket operations, callbacks) is recorded,   *)
(* in program order, in taskLog.                                           *)
(*                                                                         *)
(* The VoIP engine, the socket layer and the subscriber behind callback_   *)
(* are outside the repository.  The engine's results are inputs of the     *)
(* handlers (\E ok \in BOOLEAN); the socket layer refuses a bind to an     *)
(* address in use.  No code under src/ assigns callback_; whether lock()   *)
(* yields a subscriber is left open by Init and may turn false at any      *)
(* time.                                                                   *)
(***************************************************************************)
EXTENDS Integers, Sequences, FiniteSets, TLC

\* ------------------------------------------------------------- bounds
MaxPending == 1
MaxQueue == 2
MaxChannels == 2

\* ---------------------------------------------------------- constants
NoChannel == 0
NoPayloadType == -1
kPcmu == 0
kPcma == 8
kG722 == 9
kOpus == 96
kIsac == 97
kIlbc == 98
PortModulus == 65536

VoipThread == "voip_thread_"
ViewThread == "view"

ChannelIds == 1..MaxChannels

LocalIp == "127.0.0.1"
LocalPorts == {10000}
RemotePorts == {20000}

\* rtc::SocketAddress(ip, port): the port is kept in 16 bits.
SocketAddress(ip, port) == [ip |-> ip, port |-> port % PortModulus]

\* A default-constructed rtc::SocketAddress: no ip, port 0.
NilAddress == [ip |-> "", port |-> 0]

\* An empty std::unique_ptr<rtc::AsyncUDPSocket>.
NullSocket == [exists |-> FALSE, addr |-> NilAddress, open |-> FALSE]

\* A socket returned by rtc::AsyncUDPSocket::Create, bound to addr.
BoundSocket(addr) == [exists |-> TRUE, addr |-> addr, open |-> TRUE]

\* A socket after rtc::AsyncUDPSocket::Close().
ClosedSocket(s) == [s EXCEPT !.open = FALSE]

\* The engine's record of a channel that is not allocated.
FreeChannel ==
  [allocated |-> FALSE, sending |-> FALSE, playing |-> FALSE,
   sendCodec |-> "", sendPayloadType |-> NoPayloadType, receiveCodecs |-> {}]

\* The engine's record of a channel just returned by CreateChannel.
NewChannel == [FreeChannel EXCEPT !.allocated = TRUE]

VARIABLES
  queue,                  \* voip_thread_'s task queue, oldest first
  channel_,               \* absl::optional<ChannelId>: NoChannel is nullopt
  rtp_socket_,
  rtcp_socket_,
  rtp_local_address_,
  rtcp_local_address_,
  rtp_remote_address_,
  rtcp_remote_address_,
  callback_,              \* whether callback_.lock() yields a subscriber
  engine,                 \* the engine's channels, by id
  unbindable,             \* local addresses the host refuses to bind now
  process,                \* "running", "aborted" (RTC_CHECK), "crashed",
                          \* "stopping" (the destructor has stopped the worker)
  lastTask,               \* the task the worker executed last
  taskLog,                \* what that task did, in program order
  lastCall                \* the last SendRtp / SendRtcp call and its result

session == <<channel_, rtp_socket_, rtcp_socket_, rtp_local_address_,
             rtcp_local_address_, rtp_remote_address_, rtcp_remote_address_>>

vars == <<queue, channel_, rtp_socket_, rtcp_socket_, rtp_local_address_,
          rtcp_local_address_, rtp_remote_address_, rtcp_remote_address_,
          callback_, engine, unbindable, process, lastTask, taskLog,
          lastCall>>

\* ------------------------------------------------------------- tasks
\* A bound call std::bind(&VoipClient::method, this, args...), or one of the
\* packet lambdas.  A task does not record the thread that posted it.
Task(op) ==
  [op |-> op, name |-> "", names |-> <<>>, ip |-> "", port |-> 0,
   packet |-> <<>>]

NoTask == Task("")

\* One entry of taskLog.
Ev(ev, ch, ok, arg) == [ev |-> ev, ch |-> ch, ok |-> ok, arg |-> arg]

\* Variant of Notify that calls the subscriber without looking at what
\* lock() returned.
NotifyUnlocked(subscriber, kind, ok) ==
  <<Ev(kind, NoChannel, ok, "callback")>>

\* auto callback = callback_.lock(); if (callback) callback->kind(ok);
\* subscriber is whether lock() yields one.

Notify(subscriber, kind, ok) ==
  IF subscriber THEN <<Ev(kind, NoChannel, ok, "callback")>> ELSE <<>>

\* Variant of PostTask that puts the task in front of the queued ones.
PostTaskFront(task) == queue' = <<task>> \o queue

\* voip_thread_->PostTask(task): append to the queue.

PostTask(task) == queue' = Append(queue, task)

\* Variant of RUN_ON_VOIP_THREAD without the IsCurrent() test: the body runs
\* on whichever thread made the call.
RUN_ON_CALLER_THREAD(caller, task, body) ==
  /\ body
  /\ lastTask' = task
  /\ UNCHANGED <<queue, callback_, unbindable, lastCall>>

\* The macro RUN_ON_VOIP_THREAD(method, ...): off the worker thread the call
\* is posted and returns; on it the body runs at once.
RUN_ON_VOIP_THREAD(caller, task, body) ==
  IF caller # VoipThread
    THEN /\ PostTask(task)
         /\ UNCHANGED <<session, callback_, engine, unbindable, process,
                        lastTask, taskLog, lastCall>>
    ELSE /\ body
         /\ lastTask' = task
         /\ UNCHANGED <<queue, callback_, unbindable, lastCall>>

\* ------------------------------------------------------------ engine
\* VoipBase::CreateChannel: a channel id that is not allocated.
FreeIds == {c \in ChannelIds : ~engine[c].allocated}

CreateChannel == CHOOSE c \in FreeIds : \A d \in FreeIds : c <= d

Allocated(eng) == {c \in ChannelIds : eng[c].allocated}

\* ----------------------------------------------------------- sockets
\* Addresses held by this process's own open sockets.
OpenAddrs(socks) == {s.addr : s \in {t \in socks : t.exists /\ t.open}}

\* rtc::AsyncUDPSocket::Create(server, addr) returns a socket unless the
\* socket cannot be created or bound: the host refuses the address, or an
\* open socket of this process holds it.  Port 0 asks the host for any free
\* port and collides with nothing.
CanBind(addr, socks) ==
  /\ addr \notin unbindable
  /\ (addr.port = 0 \/ addr \notin OpenAddrs(socks))

\* ------------------------------------------------------- codec catalog
\* supported_codecs_: the names the built-in encoder factory lists.
supported_codecs_ == <<"opus", "ISAC", "G722", "ILBC", "PCMU", "PCMA">>

\* Variant of SupportedNames with a name the factory does not list.
AcceptedNames == {"opus", "ISAC", "G722", "ILBC", "PCMU", "PCMA", "speex"}

\* The names SetEncoder's loop over supported_codecs_ can match.

SupportedNames == {supported_codecs_[i] : i \in 1..Len(supported_codecs_)}

\* Variant of GetPayloadType that gives every codec the same payload type.
OnePayloadType(codec_name) == kPcmu

\* The payload type of a built-in codec, by name.
GetPayloadType(codec_name) ==
  CASE codec_name = "PCMU" -> kPcmu
    [] codec_name = "PCMA" -> kPcma
    [] codec_name = "G722" -> kG722
    [] codec_name = "opus" -> kOpus
    [] codec_name = "ISAC" -> kIsac
    [] codec_name = "ILBC" -> kIlbc
    [] OTHER -> NoPayloadType

\* ------------------------------------------------- address setters
\* rtc::SocketAddress(ip, port) passes the int port through
\* dchecked_cast<uint16_t>: out of 0..65535 it stops a build that has DCHECKs
\* on, and is cut to 16 bits by one that has not.
PortInRange(port) == port >= 0 /\ port < PortModulus

DcheckFailure == <<Ev("RTC_DCHECK", NoChannel, FALSE, "SocketAddress::SetPort")>>

SetLocalAddressBody(ip_address, port_number) ==
  /\ \E dchecks \in BOOLEAN :
       IF dchecks /\ ~PortInRange(port_number)
         THEN /\ process' = "aborted"
              /\ taskLog' = DcheckFailure
              /\ UNCHANGED <<rtp_local_address_, rtcp_local_address_>>
         ELSE IF dchecks /\ ~PortInRange(port_number + 1)
           THEN /\ process' = "aborted"
                /\ taskLog' = DcheckFailure
                /\ rtp_local_address_' =
                     SocketAddress(ip_address, port_number)
                /\ UNCHANGED rtcp_local_address_
           ELSE /\ rtp_local_address_' =
                     SocketAddress(ip_address, port_number)
                /\ rtcp_local_address_' =
                     SocketAddress(ip_address, port_number + 1)
                /\ taskLog' = <<>>
                /\ UNCHANGED process
  /\ UNCHANGED <<channel_, rtp_socket_, rtcp_socket_, rtp_remote_address_,
                 rtcp_remote_address_, engine>>

SetRemoteAddressBody(ip_address, port_number) ==
  /\ \E dchecks \in BOOLEAN :
       IF dchecks /\ ~PortInRange(port_number)
         THEN /\ process' = "aborted"
              /\ taskLog' = DcheckFailure
              /\ UNCHANGED <<rtp_remote_address_, rtcp_remote_address_>>
         ELSE IF dchecks /\ ~PortInRange(port_number + 1)
           THEN /\ process' = "aborted"
                /\ taskLog' = DcheckFailure
                /\ rtp_remote_address_' =
                     SocketAddress(ip_address, port_number)
                /\ UNCHANGED rtcp_remote_address_
           ELSE /\ rtp_remote_address_' =
                     SocketAddress(ip_address, port_number)
                /\ rtcp_remote_address_' =
                     SocketAddress(ip_address, port_number + 1)
                /\ taskLog' = <<>>
                /\ UNCHANGED process
  /\ UNCHANGED <<channel_, rtp_socket_, rtcp_socket_, rtp_local_address_,
                 rtcp_local_address_, engine>>

\* ------------------------------------------------------ StartSession
\* Variant of ReportRtpSocketFailure that reports success.
ReportRtpSocketFailureAsStarted(subscriber) ==
  Notify(subscriber, "OnStartSessionCompleted", TRUE)

\* The three places StartSession reports its outcome.
ReportRtpSocketFailure(subscriber) ==
  Notify(subscriber, "OnStartSessionCompleted", FALSE)

ReportRtcpSocketFailure(subscriber) ==
  Notify(subscriber, "OnStartSessionCompleted", FALSE)

ReportSessionStarted(subscriber) ==
  Notify(subscriber, "OnStartSessionCompleted", TRUE)

SocketCreate(which, ok) == Ev("AsyncUDPSocket::Create", NoChannel, ok, which)

\* The handler, given whether callback_.lock() yields a subscriber; log is
\* what the run leaves in taskLog.
StartSessionRun(subscriber, log) ==
  /\ FreeIds # {}
  /\ LET ch == CreateChannel
         created == <<Ev("CreateChannel", ch, TRUE, "")>>
         rtp == BoundSocket(rtp_local_address_)
         rtcp == BoundSocket(rtcp_local_address_)
     IN /\ channel_' = ch
        /\ engine' = [engine EXCEPT ![ch] = NewChannel]
        /\ IF ~CanBind(rtp_local_address_, {rtp_socket_, rtcp_socket_})
             THEN /\ rtp_socket_' = NullSocket
                  /\ UNCHANGED rtcp_socket_
                  /\ log = created \o <<SocketCreate("rtp", FALSE)>>
                                  \o ReportRtpSocketFailure(subscriber)
             ELSE IF ~CanBind(rtcp_local_address_, {rtp, rtcp_socket_})
               THEN /\ rtp_socket_' = rtp
                    /\ rtcp_socket_' = NullSocket
                    /\ log = created \o <<SocketCreate("rtp", TRUE),
                                               SocketCreate("rtcp", FALSE)>>
                                    \o ReportRtcpSocketFailure(subscriber)
               ELSE /\ rtp_socket_' = rtp
                    /\ rtcp_socket_' = rtcp
                    /\ log = created \o <<SocketCreate("rtp", TRUE),
                                               SocketCreate("rtcp", TRUE)>>
                                    \o ReportSessionStarted(subscriber)
  /\ UNCHANGED <<rtp_local_address_, rtcp_local_address_,
                 rtp_remote_address_, rtcp_remote_address_, process>>

StartSessionBody == StartSessionRun(callback_, taskLog')

\* ------------------------------------------------------- StopSession
\* The three places StopSession reports its outcome.
\* Variant of ReportEngineStopFailure that returns without reporting.
ReportNothing(subscriber) == <<>>

ReportStopWithoutChannel(subscriber) ==
  Notify(subscriber, "OnStopSessionCompleted", FALSE)

ReportEngineStopFailure(subscriber) ==
  Notify(subscriber, "OnStopSessionCompleted", FALSE)

ReportSessionStopped(subscriber) ==
  Notify(subscriber, "OnStopSessionCompleted", FALSE)

\* socket->Close() through a unique_ptr: an empty pointer is dereferenced.
SocketClose(which, sock) ==
  IF sock.exists THEN Ev("Close", NoChannel, TRUE, which)
                 ELSE Ev("NullDereference", NoChannel, FALSE, which)

\* Variant of CloseSocket that leaves the socket open.
CloseNothing(sock) == sock

\* rtp_socket_->Close(); rtcp_socket_->Close();

CloseSocket(sock) == IF sock.exists THEN ClosedSocket(sock) ELSE sock

\* Variant of ReleaseChannel that leaves the channel allocated.
ReleaseNothing(eng, ch) == eng

\* voip_engine_->Base().ReleaseChannel(ch), when it returns kOk.

ReleaseChannel(eng, ch) == [eng EXCEPT ![ch] = FreeChannel]

\* The part of StopSession after both engine stops returned kOk.  A call
\* through an empty socket pointer is undefined: the process crashes there or
\* runs on as if the call had done nothing.
StopSessionTeardown(subscriber, log, ch, eng, done) ==
  \E crashAt \in {"none", "rtp", "rtcp"}, releaseOk \in BOOLEAN :
    LET closeRtp == done \o <<SocketClose("rtp", rtp_socket_)>>
        closeBoth == closeRtp \o <<SocketClose("rtcp", rtcp_socket_)>>
        released == closeBoth \o <<Ev("ReleaseChannel", ch, releaseOk, "")>>
    IN CASE crashAt = "rtp" ->
              /\ ~rtp_socket_.exists
              /\ process' = "crashed"
              /\ engine' = eng
              /\ log = closeRtp
              /\ UNCHANGED <<channel_, rtp_socket_, rtcp_socket_>>
         [] crashAt = "rtcp" ->
              /\ ~rtcp_socket_.exists
              /\ process' = "crashed"
              /\ engine' = eng
              /\ rtp_socket_' = CloseSocket(rtp_socket_)
              /\ log = closeBoth
              /\ UNCHANGED <<channel_, rtcp_socket_>>
         [] OTHER ->
              /\ rtp_socket_' = CloseSocket(rtp_socket_)
              /\ rtcp_socket_' = CloseSocket(rtcp_socket_)
              /\ IF releaseOk
                   THEN /\ engine' = ReleaseChannel(eng, ch)
                        /\ channel_' = NoChannel
                        /\ process' = process
                        /\ log = released \o ReportSessionStopped(subscriber)
                   ELSE /\ engine' = eng
                        /\ channel_' = channel_
                        /\ process' = "aborted"
                        /\ log = released
                                        \o <<Ev("RTC_CHECK", ch, FALSE, "")>>

\* The engine's StopSend / StopPlayout on channel ch, with its result.
EngineSet(eng, ch, field, value, ok) ==
  IF ok THEN [eng EXCEPT ![ch][field] = value] ELSE eng

StopSessionRun(subscriber, log) ==
  /\ IF channel_ = NoChannel
       THEN /\ log = ReportStopWithoutChannel(subscriber)
            /\ UNCHANGED <<channel_, rtp_socket_, rtcp_socket_, engine,
                           process>>
       ELSE \E sendOk, playOk \in BOOLEAN :
              LET ch == channel_
                  eng1 == EngineSet(engine, ch, "sending", FALSE, sendOk)
                  log1 == <<Ev("StopSend", ch, sendOk, "")>>
                  eng2 == EngineSet(eng1, ch, "playing", FALSE, playOk)
                  log2 == log1 \o <<Ev("StopPlayout", ch, playOk, "")>>
              IN IF ~sendOk
                   THEN /\ engine' = eng1
                        /\ log = log1 \o ReportEngineStopFailure(subscriber)
                        /\ UNCHANGED <<channel_, rtp_socket_, rtcp_socket_,
                                       process>>
                   ELSE IF ~playOk
                     THEN /\ engine' = eng2
                          /\ log = log2 \o ReportEngineStopFailure(subscriber)
                          /\ UNCHANGED <<channel_, rtp_socket_, rtcp_socket_,
                                         process>>
                     ELSE StopSessionTeardown(subscriber, log, ch, eng2,
                                              log2)
  /\ UNCHANGED <<rtp_local_address_, rtcp_local_address_,
                 rtp_remote_address_, rtcp_remote_address_>>

StopSessionBody == StopSessionRun(callback_, taskLog')

\* ------------------------------------- StartSend .. StopPlayout
\* Variant of ReportWithoutChannel that reports success.
ReportWithoutChannelAsDone(subscriber, completed) ==
  Notify(subscriber, completed, TRUE)

\* callback->On...Completed(/*isSuccessful=*/false) when there is no channel.

ReportWithoutChannel(subscriber, completed) ==
  Notify(subscriber, completed, FALSE)

\* Variant of ReportEngineResult that reports the opposite.
ReportEngineResultNegated(subscriber, completed, ok) ==
  Notify(subscriber, completed, ~ok)

\* callback->On...Completed(result), result being whether the engine
\* returned kOk.

ReportEngineResult(subscriber, completed, ok) ==
  Notify(subscriber, completed, ok)

\* The common shape of StartSend, StopSend, StartPlayout and StopPlayout:
\* without a channel report false; otherwise call the engine and report
\* whether it returned kOk.
ChannelToggle(subscriber, log, call, field, value, completed) ==
  /\ IF channel_ = NoChannel
       THEN /\ log = ReportWithoutChannel(subscriber, completed)
            /\ UNCHANGED engine
       ELSE \E ok \in BOOLEAN :
              /\ engine' = EngineSet(engine, channel_, field, value, ok)
              /\ log = <<Ev(call, channel_, ok, "")>>
                        \o ReportEngineResult(subscriber, completed, ok)
  /\ UNCHANGED <<session, process>>

StartSendRun(subscriber, log) ==
  ChannelToggle(subscriber, log, "StartSend", "sending", TRUE,
                "OnStartSendCompleted")

StopSendRun(subscriber, log) ==
  ChannelToggle(subscriber, log, "StopSend", "sending", FALSE,
                "OnStopSendCompleted")

StartPlayoutRun(subscriber, log) ==
  ChannelToggle(subscriber, log, "StartPlayout", "playing", TRUE,
                "OnStartPlayoutCompleted")

StopPlayoutRun(subscriber, log) ==
  ChannelToggle(subscriber, log, "StopPlayout", "playing", FALSE,
                "OnStopPlayoutCompleted")

StartSendBody == StartSendRun(callback_, taskLog')

StopSendBody == StopSendRun(callback_, taskLog')

StartPlayoutBody == StartPlayoutRun(callback_, taskLog')

StopPlayoutBody == StopPlayoutRun(callback_, taskLog')

\* ------------------------------------------ SetEncoder, SetDecoders
\* RTC_CHECK(result == webrtc::VoipResult::kOk) after an engine call.
CheckOk(ok, ch) == IF ok THEN <<>> ELSE <<Ev("RTC_CHECK", ch, FALSE, "")>>

SetEncoderBody(encoder) ==
  /\ IF channel_ = NoChannel \/ encoder \notin SupportedNames
       THEN /\ taskLog' = <<>>
            /\ UNCHANGED <<engine, process>>
       ELSE \E ok \in BOOLEAN :
              /\ engine' =
                   IF ok
                     THEN [engine EXCEPT
                             ![channel_].sendCodec = encoder,
                             ![channel_].sendPayloadType =
                               GetPayloadType(encoder)]
                     ELSE engine
              /\ process' = IF ok THEN process ELSE "aborted"
              /\ taskLog' = <<Ev("SetSendCodec", channel_, ok, encoder)>>
                              \o CheckOk(ok, channel_)
  /\ UNCHANGED session

\* std::map<int, SdpAudioFormat>::insert({key, format}): a map is the set
\* of its <<key, format>> entries; a key already present keeps its entry.
MapInsert(map, key, format) ==
  IF \E e \in map : e[1] = key THEN map ELSE map \cup {<<key, format>>}

\* std::find(decoders.begin(), decoders.end(), name) != decoders.end()
Found(decoders, name) == \E k \in 1..Len(decoders) : decoders[k] = name

\* The loop that fills decoder_specs, from the i-th supported codec on.
RECURSIVE DecoderSpecsFrom(_, _, _)
DecoderSpecsFrom(i, decoders, map) ==
  IF i > Len(supported_codecs_) THEN map
  ELSE DecoderSpecsFrom(i + 1, decoders,
         IF Found(decoders, supported_codecs_[i])
           THEN MapInsert(map, GetPayloadType(supported_codecs_[i]),
                          supported_codecs_[i])
           ELSE map)

\* decoder_specs as SetDecoders hands it to the engine.
DecoderSpecs(decoders) == DecoderSpecsFrom(1, decoders, {})

SetDecodersBody(decoders) ==
  /\ IF channel_ = NoChannel
       THEN /\ taskLog' = <<>>
            /\ UNCHANGED <<engine, process>>
       ELSE \E ok \in BOOLEAN :
              /\ engine' =
                   IF ok
                     THEN [engine EXCEPT ![channel_].receiveCodecs =
                                           DecoderSpecs(decoders)]
                     ELSE engine
              /\ process' = IF ok THEN process ELSE "aborted"
              /\ taskLog' = <<Ev("SetReceiveCodecs", channel_, ok, "")>>
                              \o CheckOk(ok, channel_)
  /\ UNCHANGED session

\* --------------------------------------------------- outbound packets
\* No SendRtp / SendRtcp call has been made yet.
NoCall == [call |-> "", packet |-> <<>>, length |-> 0, result |-> FALSE]

\* Variant of CopyOf that copies nothing.
CopyNothing(packet, length) == <<>>

\* std::vector<uint8_t> packet_copy(packet, packet + length)

CopyOf(packet, length) == [i \in 1..length |-> packet[i]]

\* socket->SendTo(data, size, remote, options) through a unique_ptr: an empty
\* pointer is dereferenced; a closed socket refuses; an open one sends or
\* fails.
SocketSendTo(which, sock, sent) ==
  IF ~sock.exists THEN Ev("NullDereference", NoChannel, FALSE, which)
  ELSE Ev("SendTo", NoChannel, sock.open /\ sent, which)

\* The common shape of SendRtpPacket and SendRtcpPacket: send the copy to
\* the remote address; a failure is logged, nothing more.  A call through an
\* empty socket pointer is undefined: the process crashes there or runs on.
SendPacket(which, sock) ==
  /\ \E sent, crash \in BOOLEAN :
       /\ taskLog' = <<SocketSendTo(which, sock, sent)>>
       /\ process' = IF ~sock.exists /\ crash THEN "crashed" ELSE process
  /\ UNCHANGED <<session, engine>>

SendRtpPacket(packet_copy) == SendPacket("rtp", rtp_socket_)

SendRtcpPacket(packet_copy) == SendPacket("rtcp", rtcp_socket_)

\* The transport calls the engine makes, on a thread of its choice: copy the
\* packet, post the send, return true.
SendRtp(caller, packet, length) ==
  /\ process = "running"
  /\ PostTask([Task("SendRtpPacket") EXCEPT
                 !.packet = CopyOf(packet, length)])
  /\ lastCall' = [call |-> "SendRtp", packet |-> packet, length |-> length,
                  result |-> TRUE]
  /\ UNCHANGED <<session, callback_, engine, unbindable, process, lastTask,
                 taskLog>>

SendRtcp(caller, packet, length) ==
  /\ process = "running"
  /\ PostTask([Task("SendRtcpPacket") EXCEPT
                 !.packet = CopyOf(packet, length)])
  /\ lastCall' = [call |-> "SendRtcp", packet |-> packet, length |-> length,
                  result |-> TRUE]
  /\ UNCHANGED <<session, callback_, engine, unbindable, process, lastTask,
                 taskLog>>

\* ---------------------------------------------------- inbound packets
\* One char of a received datagram as the uint8_t the copy holds.
ToByte(c) == c % 256

\* std::vector<uint8_t> packet_copy(rtp_packet, rtp_packet + size)
CopyOfChars(packet, size) == [i \in 1..size |-> ToByte(packet[i])]

\* The slots connected to the sockets' SignalReadPacket: a datagram has
\* arrived on the socket; copy it and post its forwarding.  The signal is
\* connected once the socket is created and fires while the socket is open.
OnSignalReadRTPPacket(rtp_packet, size) ==
  /\ process = "running"
  /\ rtp_socket_.exists /\ rtp_socket_.open
  /\ PostTask([Task("ReadRTPPacket") EXCEPT
                 !.packet = CopyOfChars(rtp_packet, size)])
  /\ lastCall' = [call |-> "OnSignalReadRTPPacket", packet |-> rtp_packet,
                  length |-> size, result |-> FALSE]
  /\ UNCHANGED <<session, callback_, engine, unbindable, process, lastTask,
                 taskLog>>

OnSignalReadRTCPPacket(rtcp_packet, size) ==
  /\ process = "running"
  /\ rtcp_socket_.exists /\ rtcp_socket_.open
  /\ PostTask([Task("ReadRTCPPacket") EXCEPT
                 !.packet = CopyOfChars(rtcp_packet, size)])
  /\ lastCall' = [call |-> "OnSignalReadRTCPPacket", packet |-> rtcp_packet,
                  length |-> size, result |-> FALSE]
  /\ UNCHANGED <<session, callback_, engine, unbindable, process, lastTask,
                 taskLog>>

\* Variant of ReceivedPacket that hands the packet to the engine twice.
ReceivedPacketTwice(call, ch, ok) ==
  <<Ev(call, ch, ok, ""), Ev(call, ch, ok, "")>>

\* voip_engine_->Network().ReceivedRTPPacket(*channel_, packet) or
\* ReceivedRTCPPacket, with its result.

ReceivedPacket(call, ch, ok) == <<Ev(call, ch, ok, "")>>

\* The common shape of ReadRTPPacket and ReadRTCPPacket: without a channel
\* the packet is dropped; otherwise it goes to the engine, whose result is
\* asserted.
ReadPacket(call) ==
  /\ IF channel_ = NoChannel
       THEN /\ taskLog' = <<>>
            /\ UNCHANGED process
       ELSE \E ok \in BOOLEAN :
              /\ taskLog' = ReceivedPacket(call, channel_, ok)
                              \o CheckOk(ok, channel_)
              /\ process' = IF ok THEN process ELSE "aborted"
  /\ UNCHANGED <<session, engine>>

ReadRTPPacket(packet_copy) == ReadPacket("ReceivedRTPPacket")

ReadRTCPPacket(packet_copy) == ReadPacket("ReceivedRTCPPacket")

\* ------------------------------------------------------ public calls
SetEncoder(caller, encoder) ==
  /\ process = "running"
  /\ RUN_ON_VOIP_THREAD(caller,
       [Task("SetEncoder") EXCEPT !.name = encoder],
       SetEncoderBody(encoder))

SetDecoders(caller, decoders) ==
  /\ process = "running"
  /\ RUN_ON_VOIP_THREAD(caller,
       [Task("SetDecoders") EXCEPT !.names = decoders],
       SetDecodersBody(decoders))

SetLocalAddress(caller, ip_address, port_number) ==
  /\ process = "running"
  /\ RUN_ON_VOIP_THREAD(caller,
       [Task("SetLocalAddress") EXCEPT !.ip = ip_address,
                                               !.port = port_number],
       SetLocalAddressBody(ip_address, port_number))

SetRemoteAddress(caller, ip_address, port_number) ==
  /\ process = "running"
  /\ RUN_ON_VOIP_THREAD(caller,
       [Task("SetRemoteAddress") EXCEPT !.ip = ip_address,
                                                !.port = port_number],
       SetRemoteAddressBody(ip_address, port_number))

StartSession(caller) ==
  /\ process = "running"
  /\ RUN_ON_VOIP_THREAD(caller, Task("StartSession"),
                        StartSessionBody)

StopSession(caller) ==
  /\ process = "running"
  /\ RUN_ON_VOIP_THREAD(caller, Task("StopSession"), StopSessionBody)

StartSend(caller) ==
  /\ process = "running"
  /\ RUN_ON_VOIP_THREAD(caller, Task("StartSend"), StartSendBody)

StopSend(caller) ==
  /\ process = "running"
  /\ RUN_ON_VOIP_THREAD(caller, Task("StopSend"), StopSendBody)

StartPlayout(caller) ==
  /\ process = "running"
  /\ RUN_ON_VOIP_THREAD(caller, Task("StartPlayout"),
                        StartPlayoutBody)

StopPlayout(caller) ==
  /\ process = "running"
  /\ RUN_ON_VOIP_THREAD(caller, Task("StopPlayout"), StopPlayoutBody)

\* ------------------------------------------------------ the conductor
\* What the five calls of a session-on event post, in the order of the
\* calls.
SessionOnTasks(local_ip, local_port, remote_ip, remote_port, encoder, decoders) ==
  << [Task("SetLocalAddress") EXCEPT !.ip = local_ip, !.port = local_port],
     [Task("SetRemoteAddress") EXCEPT !.ip = remote_ip,
                                      !.port = remote_port],
     Task("StartSession"),
     [Task("SetEncoder") EXCEPT !.name = encoder],
     [Task("SetDecoders") EXCEPT !.names = decoders] >>

\* Variant of OnSessionEvent that starts the session before it sets the
\* addresses.
OnSessionEventStartFirst(on, local_ip, local_port, remote_ip, remote_port, encoder, decoders) ==
  /\ process = "running"
  /\ queue' =
       IF on
         THEN LET t == SessionOnTasks(local_ip, local_port, remote_ip,
                                      remote_port, encoder, decoders)
              IN  queue \o <<t[3], t[1], t[2], t[4], t[5]>>
         ELSE Append(queue, Task("StopSession"))
  /\ UNCHANGED <<session, callback_, engine, unbindable, process, lastTask,
                 taskLog, lastCall>>

\* Conductor::OnSessionEvent, called on the view thread: for on, the calls
\* SetLocalAddress, SetRemoteAddress, StartSession, SetEncoder, SetDecoders,
\* each of which RUN_ON_VOIP_THREAD posts to the worker; otherwise
\* StopSession.
OnSessionEvent(on, local_ip, local_port, remote_ip, remote_port, encoder, decoders) ==
  /\ process = "running"
  /\ queue' =
       IF on
         THEN queue \o SessionOnTasks(local_ip, local_port, remote_ip,
                                      remote_port, encoder, decoders)
         ELSE Append(queue, Task("StopSession"))
  /\ UNCHANGED <<session, callback_, engine, unbindable, process, lastTask,
                 taskLog, lastCall>>

\* ------------------------------------------------- the worker thread
\* What the bound call or lambda of a task runs.
Execute(task) ==
  CASE task.op = "SetEncoder" -> SetEncoderBody(task.name)
    [] task.op = "SetDecoders" -> SetDecodersBody(task.names)
    [] task.op = "SetLocalAddress" -> SetLocalAddressBody(task.ip, task.port)
    [] task.op = "SetRemoteAddress" ->
         SetRemoteAddressBody(task.ip, task.port)
    [] task.op = "StartSession" -> StartSessionBody
    [] task.op = "StopSession" -> StopSessionBody
    [] task.op = "StartSend" -> StartSendBody
    [] task.op = "StopSend" -> StopSendBody
    [] task.op = "StartPlayout" -> StartPlayoutBody
    [] task.op = "StopPlayout" -> StopPlayoutBody
    [] task.op = "SendRtpPacket" -> SendRtpPacket(task.packet)
    [] task.op = "SendRtcpPacket" -> SendRtcpPacket(task.packet)
    [] task.op = "ReadRTPPacket" -> ReadRTPPacket(task.packet)
    [] task.op = "ReadRTCPPacket" -> ReadRTCPPacket(task.packet)

\* The task voip_thread_ takes from its queue: the oldest.
NextTask == Head(queue)

RestOfQueue == Tail(queue)

\* voip_thread_ takes the next task off its queue and runs it to completion.
\* A stopped worker still runs the tasks queued before it was stopped.
VoipThreadRun ==
  /\ process \in {"running", "stopping"}
  /\ queue # <<>>
  /\ lastTask' = NextTask
  /\ queue' = RestOfQueue
  /\ Execute(NextTask)
  /\ UNCHANGED <<callback_, unbindable, lastCall>>

\* ~VoipClient(): voip_thread_->Stop() tells the worker to quit and joins
\* it.  No call reaches the client any more; the worker leaves its loop once
\* its queue is empty.
VoipClientDestructor ==
  /\ process = "running"
  /\ process' = "stopping"
  /\ UNCHANGED <<queue, session, callback_, engine, unbindable, lastTask,
                 taskLog, lastCall>>

\* -------------------------------------------------------- environment
\* The subscriber behind callback_ is destroyed: lock() yields nothing.
SubscriberDestroyed ==
  /\ process = "running"
  /\ callback_
  /\ callback_' = FALSE
  /\ UNCHANGED <<queue, session, engine, unbindable, process, lastTask,
                 taskLog, lastCall>>

LocalAddrs ==
  {SocketAddress(LocalIp, p) : p \in LocalPorts}
    \cup {SocketAddress(LocalIp, p + 1) : p \in LocalPorts}

\* Another socket of the host binds, or releases, a local address.
BoundElsewhere ==
  /\ process = "running"
  /\ \E a \in LocalAddrs \ unbindable :
       /\ a \notin OpenAddrs({rtp_socket_, rtcp_socket_})
       /\ unbindable' = unbindable \cup {a}
  /\ UNCHANGED <<queue, session, callback_, engine, process, lastTask,
                 taskLog, lastCall>>

ReleasedElsewhere ==
  /\ process = "running"
  /\ \E a \in unbindable \cap LocalAddrs : unbindable' = unbindable \ {a}
  /\ UNCHANGED <<queue, session, callback_, engine, process, lastTask,
                 taskLog, lastCall>>

\* ------------------------------------------------------ specification
\* After VoipClient::Create(): the worker runs, the engine holds no channel,
\* no socket exists and the four addresses are default-constructed.  Whether
\* the host's socket layer gives a socket for the default address (no ip,
\* port 0) is a property of the host, fixed from the start.
Init ==
  /\ queue = <<>>
  /\ channel_ = NoChannel
  /\ rtp_socket_ = NullSocket
  /\ rtcp_socket_ = NullSocket
  /\ rtp_local_address_ = NilAddress
  /\ rtcp_local_address_ = NilAddress
  /\ rtp_remote_address_ = NilAddress
  /\ rtcp_remote_address_ = NilAddress
  /\ callback_ \in BOOLEAN
  /\ engine = [c \in ChannelIds |-> FreeChannel]
  /\ unbindable \in {{}, {NilAddress}}
  /\ process = "running"
  /\ lastTask = NoTask
  /\ taskLog = <<>>
  /\ lastCall = NoCall

\* The session life cycle, driven by the view thread, which has at most
\* MaxPending calls outstanding: sessions are started and stopped on the
\* configured local address while other sockets of the host come and go.
Next ==
  \/ Len(queue) < MaxPending
       /\ \E p \in LocalPorts : SetLocalAddress(ViewThread, LocalIp, p)
  \/ Len(queue) < MaxPending /\ StartSession(ViewThread)
  \/ Len(queue) < MaxPending /\ StopSession(ViewThread)
  \/ Len(queue) < MaxPending /\ StartSend(ViewThread)
  \/ VoipThreadRun
  \/ SubscriberDestroyed
  \/ BoundElsewhere
  \/ ReleasedElsewhere

Spec == Init /\ [][Next]_vars

\* The life cycle with sending and playout switched on and off as well.
NextStreams ==
  \/ Len(queue) < MaxPending
       /\ \E p \in LocalPorts : SetLocalAddress(ViewThread, LocalIp, p)
  \/ Len(queue) < MaxPending /\ StartSession(ViewThread)
  \/ Len(queue) < MaxPending /\ StopSession(ViewThread)
  \/ Len(queue) < MaxPending /\ StartSend(ViewThread)
  \/ Len(queue) < MaxPending /\ StopSend(ViewThread)
  \/ Len(queue) < MaxPending /\ StartPlayout(ViewThread)
  \/ Len(queue) < MaxPending /\ StopPlayout(ViewThread)
  \/ VoipThreadRun
  \/ SubscriberDestroyed
  \/ BoundElsewhere
  \/ ReleasedElsewhere

SpecStreams == Init /\ [][NextStreams]_vars

\* Every public call, made by two threads that are not the worker, with at
\* most MaxPending calls outstanding, while the subscriber may go away.  The
\* callers ask for a session only when none exists and none is asked for, as
\* the window's session switch alternates between starting and stopping.
Threads == {"t1", "t2"}

session_off ==
  /\ channel_ = NoChannel
  /\ \A i \in 1..Len(queue) : queue[i].op # "StartSession"

EncoderNames == {"opus"}

DecoderLists == {<<"PCMU", "opus">>}

NextCalls ==
  \/ \E t \in Threads, e \in EncoderNames :
       Len(queue) < MaxPending /\ SetEncoder(t, e)
  \/ \E t \in Threads, d \in DecoderLists :
       Len(queue) < MaxPending /\ SetDecoders(t, d)
  \/ \E t \in Threads, p \in LocalPorts :
       Len(queue) < MaxPending /\ SetLocalAddress(t, LocalIp, p)
  \/ \E t \in Threads, p \in RemotePorts :
       Len(queue) < MaxPending /\ SetRemoteAddress(t, LocalIp, p)
  \/ \E t \in Threads :
       Len(queue) < MaxPending /\ session_off /\ StartSession(t)
  \/ \E t \in Threads : Len(queue) < MaxPending /\ StopSession(t)
  \/ \E t \in Threads : Len(queue) < MaxPending /\ StartSend(t)
  \/ \E t \in Threads : Len(queue) < MaxPending /\ StopSend(t)
  \/ \E t \in Threads : Len(queue) < MaxPending /\ StartPlayout(t)
  \/ \E t \in Threads : Len(queue) < MaxPending /\ StopPlayout(t)
  \/ VoipThreadRun
  \/ SubscriberDestroyed

SpecCalls == Init /\ [][NextCalls]_vars

\* Encoder selection by two threads that are not the worker, around one
\* session; at most MaxQueue tasks are queued.
OrderedEncoders == {"opus", "PCMU"}

NextEncoder ==
  \/ \E t \in Threads, e \in OrderedEncoders :
       Len(queue) < MaxQueue /\ SetEncoder(t, e)
  \/ \E t \in Threads : Len(queue) < MaxQueue /\ StartSession(t)
  \/ \E t \in Threads : Len(queue) < MaxQueue /\ StopSession(t)
  \/ VoipThreadRun

SpecEncoder == Init /\ [][NextEncoder]_vars

\* Codec selection around the session life cycle: the view offers one name
\* the factory lists and one it does not, and decoder lists, while sessions
\* are started and stopped and other sockets of the host come and go.
OfferedEncoders == {"opus", "speex"}

OfferedDecoders ==
  {<<"PCMU", "speex", "opus", "PCMU">>, <<"ISAC", "ILBC", "G722", "PCMA">>}

NextCodecs ==
  \/ Len(queue) < MaxPending
       /\ \E p \in LocalPorts : SetLocalAddress(ViewThread, LocalIp, p)
  \/ Len(queue) < MaxPending /\ session_off /\ StartSession(ViewThread)
  \/ Len(queue) < MaxPending /\ StopSession(ViewThread)
  \/ Len(queue) < MaxPending
       /\ \E e \in OfferedEncoders : SetEncoder(ViewThread, e)
  \/ Len(queue) < MaxPending
       /\ \E d \in OfferedDecoders : SetDecoders(ViewThread, d)
  \/ VoipThreadRun
  \/ BoundElsewhere
  \/ ReleasedElsewhere

SpecCodecs == Init /\ [][NextCodecs]_vars

\* Address configuration around one session, by the view thread: an
\* ordinary port and the highest one, on either side.
EdgeLocalPorts == {10000, 65535}

EdgeRemotePorts == {20000, 65535}

NextAddresses ==
  \/ Len(queue) < MaxPending
       /\ \E p \in EdgeLocalPorts : SetLocalAddress(ViewThread, LocalIp, p)
  \/ Len(queue) < MaxPending
       /\ \E p \in EdgeRemotePorts : SetRemoteAddress(ViewThread, LocalIp, p)
  \/ Len(queue) < MaxPending /\ session_off /\ StartSession(ViewThread)
  \/ Len(queue) < MaxPending /\ StopSession(ViewThread)
  \/ VoipThreadRun

SpecAddresses == Init /\ [][NextAddresses]_vars

\* The engine hands packets to the transport around one session: a thread
\* of the engine, or the worker itself, calls SendRtp / SendRtcp with a
\* buffer and a length while the session is started and stopped; at most
\* MaxQueue tasks are queued.
EngineThreads == {"audio", VoipThread}

Buffers == {<<>>, <<128, 96>>}

NextTransport ==
  \/ \E t \in EngineThreads, b \in Buffers :
       \E n \in 0..Len(b) : Len(queue) < MaxQueue /\ SendRtp(t, b, n)
  \/ \E t \in EngineThreads, b \in Buffers :
       \E n \in 0..Len(b) : Len(queue) < MaxQueue /\ SendRtcp(t, b, n)
  \/ Len(queue) < MaxQueue /\ session_off /\ StartSession(ViewThread)
  \/ Len(queue) < MaxQueue /\ StopSession(ViewThread)
  \/ VoipThreadRun

SpecTransport == Init /\ [][NextTransport]_vars

\* Datagrams arrive on the sockets of a session that is started and stopped
\* meanwhile; at most MaxQueue tasks are queued.  The chars of a datagram
\* may be negative.
Datagrams == {<<>>, <<-128, 96>>}

NextInbound ==
  \/ \E d \in Datagrams :
       \E n \in 0..Len(d) :
         Len(queue) < MaxQueue /\ OnSignalReadRTPPacket(d, n)
  \/ \E d \in Datagrams :
       \E n \in 0..Len(d) :
         Len(queue) < MaxQueue /\ OnSignalReadRTCPPacket(d, n)
  \/ Len(queue) < MaxQueue /\ session_off /\ StartSession(ViewThread)
  \/ Len(queue) < MaxQueue /\ StopSession(ViewThread)
  \/ VoipThreadRun

SpecInbound == Init /\ [][NextInbound]_vars

\* The whole life of a client: a session is started and stopped, sending is
\* switched on, the engine sends and datagrams arrive, and in the end the
\* client is destroyed; at most MaxQueue tasks are queued.  The worker
\* thread loops over its queue for as long as the process lives, so a task
\* it can take it does take: its step is weakly fair.
NextLifetime ==
  \/ Len(queue) < MaxQueue /\ session_off /\ StartSession(ViewThread)
  \/ Len(queue) < MaxQueue /\ StopSession(ViewThread)
  \/ Len(queue) < MaxQueue /\ StartSend(ViewThread)
  \/ Len(queue) < MaxQueue /\ SendRtp("audio", <<128, 96>>, 2)
  \/ Len(queue) < MaxQueue /\ OnSignalReadRTPPacket(<<-128, 96>>, 2)
  \/ VoipThreadRun
  \/ VoipClientDestructor

SpecLifetime ==
  Init /\ [][NextLifetime]_vars /\ WF_vars(VoipThreadRun)

\* The session button of the window is pressed again and again: each press
\* hands the conductor a session event, on with the addresses and codecs
\* entered in the window or off, while at most MaxQueue tasks of earlier
\* events are still queued and other sockets of the host come and go.
SessionEvents ==
  { [local_port |-> 10000, remote_port |-> 20000, encoder |-> "opus",
     decoders |-> <<"PCMU", "opus">>],
    [local_port |-> 10002, remote_port |-> 20002, encoder |-> "PCMU",
     decoders |-> <<"G722">>] }

NextSessionEvents ==
  \/ \E e \in SessionEvents :
       /\ Len(queue) < MaxQueue
       /\ OnSessionEvent(TRUE, LocalIp, e.local_port, LocalIp, e.remote_port,
                         e.encoder, e.decoders)
  \/ \E e \in SessionEvents :
       /\ Len(queue) < MaxQueue
       /\ OnSessionEvent(FALSE, "", 0, "", 0, e.encoder, e.decoders)
  \/ VoipThreadRun
  \/ BoundElsewhere
  \/ ReleasedElsewhere

SpecSessionEvents == Init /\ [][NextSessionEvents]_vars

\* ============================================================ claims
\* The session is Active: StartSession created the channel and both sockets,
\* and no StopSession has torn them down.
SocketUsable(sock) == sock.exists /\ sock.open

SessionActive ==
  /\ channel_ # NoChannel
  /\ SocketUsable(rtp_socket_)
  /\ SocketUsable(rtcp_socket_)

\* The step in which the worker takes a task of kind op off its queue and
\* runs it.
Running(op) ==
  /\ queue # <<>>
  /\ Head(queue).op = op
  /\ queue' = Tail(queue)

IsNotification(e) == e.arg = "callback"

Notifications(log) == SelectSeq(log, IsNotification)

EngineCallNames ==
  {"CreateChannel", "ReleaseChannel", "StartSend", "StopSend",
   "StartPlayout", "StopPlayout", "SetSendCodec", "SetReceiveCodecs",
   "ReceivedRTPPacket", "ReceivedRTCPPacket"}

IsEngineCall(e) == e.ev \in EngineCallNames

EngineCalls(log) == SelectSeq(log, IsEngineCall)

Has(log, ev, ok) == \E i \in 1..Len(log) : log[i].ev = ev /\ log[i].ok = ok

\* What reaches the subscriber when an operation reports ok through the
\* callback kind: one notification while the subscriber lives, none after.
Reported(kind, ok) ==
  IF callback_ THEN <<Ev(kind, NoChannel, ok, "callback")>> ELSE <<>>

BindFailed(log) == Has(log, "AsyncUDPSocket::Create", FALSE)

EngineStopsSucceeded(log) ==
  Has(log, "StopSend", TRUE) /\ Has(log, "StopPlayout", TRUE)

\* ---------------------------------------------------------------- C1
\* C1: calls made off the worker thread run on the worker in the order they
\* were submitted.  A call appends its task behind every task already
\* queued; the worker always takes the oldest queued task; and a SetEncoder
\* task with a supported name that runs with a channel leaves that name as
\* the channel's send codec.  So SetEncoder("opus") then SetEncoder("PCMU"),
\* issued in that order by two threads, leave PCMU configured.
SubmittedLast ==
  Len(queue') > Len(queue) =>
    /\ Len(queue') = Len(queue) + 1
    /\ SubSeq(queue', 1, Len(queue)) = queue

OldestFirst ==
  Len(queue') < Len(queue) =>
    /\ queue' = Tail(queue)
    /\ lastTask' = Head(queue)

EncoderApplied ==
  \A e \in OrderedEncoders :
    ( /\ Running("SetEncoder")
      /\ Head(queue).name = e
      /\ channel_ # NoChannel
      /\ process' = "running" )
    => /\ engine'[channel_].sendCodec = e
       /\ engine'[channel_].sendPayloadType = GetPayloadType(e)

OpusThenPcmu ==
  ( /\ Len(queue) = 2
    /\ queue[1].op = "SetEncoder" /\ queue[1].name = "opus"
    /\ queue[2].op = "SetEncoder" /\ queue[2].name = "PCMU"
    /\ Len(queue') < Len(queue) )
  => /\ lastTask'.name = "opus"
     /\ Len(queue') = 1
     /\ queue'[1].name = "PCMU"

C1_SubmissionOrder ==
  [][SubmittedLast /\ OldestFirst /\ EncoderApplied /\ OpusThenPcmu]_vars

\* SetEncoder("PCMU") was the task run last, nothing is queued behind it,
\* and the channel's send codec is PCMU.
C1_Witness ==
  /\ process = "running"
  /\ channel_ # NoChannel
  /\ lastTask.op = "SetEncoder"
  /\ lastTask.name = "PCMU"
  /\ queue = <<>>
  /\ engine[channel_].sendCodec = "PCMU"
  /\ engine[channel_].sendPayloadType = kPcmu

\* ---------------------------------------------------------------- C2
\* C2: the channel handle, the two sockets and the four addresses change
\* only in a step in which the worker takes a task off its queue; a public
\* call made on another thread appends exactly one task, of the kind
\* called, and changes nothing else.
PublicOps ==
  {"SetEncoder", "SetDecoders", "SetLocalAddress", "SetRemoteAddress",
   "StartSession", "StopSession", "StartSend", "StopSend", "StartPlayout",
   "StopPlayout"}

WorkerStep ==
  /\ queue # <<>>
  /\ queue' = Tail(queue)
  /\ lastTask' = Head(queue)

CallOnlyPosts ==
  Len(queue') > Len(queue) =>
    /\ Len(queue') = Len(queue) + 1
    /\ SubSeq(queue', 1, Len(queue)) = queue
    /\ queue'[Len(queue')].op \in PublicOps
    /\ UNCHANGED <<session, callback_, engine, unbindable, process,
                   lastTask, taskLog>>

C3_ChannelIffSockets ==
  process = "running" =>
    (channel_ # NoChannel <=>
       (SocketUsable(rtp_socket_) /\ SocketUsable(rtcp_socket_)))

\* ---------------------------------------------------------------- C4
\* C4: StartSession run while the session is Active reports failure, keeps
\* the channel handle and both sockets as they were, and creates no engine
\* channel.
C4_StartWhileActiveRejected ==
  [][ (Running("StartSession") /\ SessionActive) =>
        /\ Notifications(taskLog') = Reported("OnStartSessionCompleted", FALSE)
        /\ channel_' = channel_
        /\ rtp_socket_' = rtp_socket_
        /\ rtcp_socket_' = rtcp_socket_
        /\ Allocated(engine') = Allocated(engine) ]_vars

\* ---------------------------------------------------------------- C5
\* C5: a StartSession run in which the bind of the rtp or of the rtcp socket
\* fails delivers OnStartSessionCompleted(false) and nothing else: exactly
\* that one notification while the subscriber lives (none once it is gone),
\* and never OnStartSessionCompleted(true).
C5_BindFailureReportsFalse ==
  [][ (Running("StartSession") /\ BindFailed(taskLog')) =>
        Notifications(taskLog') = Reported("OnStartSessionCompleted", FALSE)
    ]_vars

\* StartSession has run with its local rtp address held by another socket
\* of the host, and the live subscriber was told false.
C5_Witness ==
  /\ lastTask.op = "StartSession"
  /\ BindFailed(taskLog)
  /\ rtp_local_address_ = SocketAddress(LocalIp, 10000)
  /\ rtp_local_address_ \in unbindable
  /\ callback_
  /\ Notifications(taskLog) =
       <<Ev("OnStartSessionCompleted", NoChannel, FALSE, "callback")>>

\* ---------------------------------------------------------------- C6
\* C6: right after a StartSession run in which a bind failed the session is
\* not Active: StartSend, StopSend, StartPlayout, StopPlayout or StopSession
\* run next reports false and makes no engine call, and SetEncoder or
\* SetDecoders run next does nothing.
CompletionOf(op) ==
  CASE op = "StartSession" -> "OnStartSessionCompleted"
    [] op = "StartSend" -> "OnStartSendCompleted"
    [] op = "StopSend" -> "OnStopSendCompleted"
    [] op = "StartPlayout" -> "OnStartPlayoutCompleted"
    [] op = "StopPlayout" -> "OnStopPlayoutCompleted"
    [] op = "StopSession" -> "OnStopSessionCompleted"
    [] OTHER -> ""

AfterFailedStart == lastTask.op = "StartSession" /\ BindFailed(taskLog)

C6_NotActiveAfterFailedStart ==
  [][ /\ \A op \in {"StartSend", "StopSend", "StartPlayout", "StopPlayout",
                    "StopSession"} :
           (AfterFailedStart /\ Running(op)) =>
             /\ EngineCalls(taskLog') = <<>>
             /\ Notifications(taskLog') = Reported(CompletionOf(op), FALSE)
      /\ \A op \in {"SetEncoder", "SetDecoders"} :
           (AfterFailedStart /\ Running(op)) =>
             /\ taskLog' = <<>>
             /\ engine' = engine ]_vars

\* ---------------------------------------------------------------- C7
\* C7: a StartSession run in which a bind failed leaves no engine channel
\* allocated that was not allocated before the run.
C7_NoChannelLeakOnBindFailure ==
  [][ (Running("StartSession") /\ BindFailed(taskLog')) =>
        Allocated(engine') \subseteq Allocated(engine) ]_vars

\* ---------------------------------------------------------------- C8
\* C8: StopSession run on an Active session, the engine's StopSend and
\* StopPlayout both succeeding (and ReleaseChannel after them), reports
\* OnStopSessionCompleted(true).
C8_StopSessionReportsTrue ==
  [][ ( /\ Running("StopSession")
        /\ SessionActive
        /\ EngineStopsSucceeded(taskLog')
        /\ process' = "running" ) =>
        Notifications(taskLog') = Reported("OnStopSessionCompleted", TRUE)
    ]_vars

\* ---------------------------------------------------------------- C9
\* C9: StopSession run on an Active session, the engine's StopSend and
\* StopPlayout both succeeding (and ReleaseChannel, which is asserted),
\* ends with both sockets closed, the channel released from the engine by
\* exactly one ReleaseChannel call, the channel handle absent and no open
\* socket left, so the session is Idle; the socket objects themselves stay
\* held, closed.  The completion notification is the last thing the task
\* does, after the two Close calls and the release, in that order.
TeardownThenReport(log, ch) ==
  LET calls == SelectSeq(log, LAMBDA e : ~IsNotification(e))
      n == Len(calls)
  IN /\ n >= 3
     /\ calls[n - 2] = Ev("Close", NoChannel, TRUE, "rtp")
     /\ calls[n - 1] = Ev("Close", NoChannel, TRUE, "rtcp")
     /\ calls[n] = Ev("ReleaseChannel", ch, TRUE, "")
     /\ Len(SelectSeq(log, LAMBDA e : e.ev = "ReleaseChannel")) = 1
     /\ log = calls \o Notifications(log)

StoppedCleanly ==
  /\ lastTask.op = "StopSession"
  /\ Has(taskLog, "ReleaseChannel", TRUE)
  /\ Has(taskLog, "Close", TRUE)
  /\ ~Has(taskLog, "NullDereference", FALSE)
  /\ channel_ = NoChannel
  /\ rtp_socket_.exists /\ rtp_socket_.addr = rtp_local_address_
  /\ rtcp_socket_.exists /\ rtcp_socket_.addr = rtcp_local_address_

C10_RestartOnSameAddress ==
  [][ ( /\ StoppedCleanly
        /\ Running("StartSession")
        /\ rtp_local_address_ \notin unbindable
        /\ rtcp_local_address_ \notin unbindable ) =>
        /\ rtp_socket_' = BoundSocket(rtp_socket_.addr)
        /\ rtcp_socket_' = BoundSocket(rtcp_socket_.addr)
        /\ channel_' # NoChannel
        /\ engine'[channel_'].allocated
        /\ ~BindFailed(taskLog')
        /\ Notifications(taskLog') = Reported("OnStartSessionCompleted", TRUE)
    ]_vars

\* StopSession has just torn down a session bound to 127.0.0.1:10000 and
\* :10001, the same local address is still configured and free, and the
\* next task is StartSession.
C10_Witness ==
  /\ StoppedCleanly
  /\ rtp_local_address_ = SocketAddress(LocalIp, 10000)
  /\ rtcp_local_address_ = SocketAddress(LocalIp, 10001)
  /\ unbindable \cap LocalAddrs = {}
  /\ queue = <<Task("StartSession")>>

\* --------------------------------------------------------------- C11
\* C11: StopSession run on an Active session in which the engine's StopSend
\* or StopPlayout fails reports OnStopSessionCompleted(false) and leaves
\* everything as it was: the channel handle, both sockets, the addresses and
\* the engine's record of every channel, the sending and playing flags of
\* the current one included.
EngineStopFailed(log) ==
  Has(log, "StopSend", FALSE) \/ Has(log, "StopPlayout", FALSE)

C11_FailedStopChangesNothing ==
  [][ ( /\ Running("StopSession")
        /\ SessionActive
        /\ EngineStopFailed(taskLog') ) =>
        /\ Notifications(taskLog') = Reported("OnStopSessionCompleted", FALSE)
        /\ session' = session
        /\ engine' = engine
        /\ process' = process ]_vars

\* --------------------------------------------------------------- C12
\* C12: StopSession, StartSend, StopSend, StartPlayout or StopPlayout run
\* while there is no channel reports false through its own completion
\* callback and does nothing else: no engine call, no socket operation, and
\* the channel handle, the sockets, the addresses and the engine are as
\* before.
SessionOps ==
  {"StopSession", "StartSend", "StopSend", "StartPlayout", "StopPlayout"}

C12_IdleOperationsReportFalse ==
  [][ \A op \in SessionOps :
        (Running(op) /\ channel_ = NoChannel) =>
          /\ taskLog' = Reported(CompletionOf(op), FALSE)
          /\ EngineCalls(taskLog') = <<>>
          /\ session' = session
          /\ engine' = engine
          /\ process' = process ]_vars

\* StartPlayout has run after a session was started and stopped again: there
\* is no channel, the closed sockets are still held, and the live subscriber
\* was told false.
C12_Witness ==
  /\ lastTask.op = "StartPlayout"
  /\ channel_ = NoChannel
  /\ rtp_socket_.exists /\ ~rtp_socket_.open
  /\ callback_
  /\ taskLog = <<Ev("OnStartPlayoutCompleted", NoChannel, FALSE, "callback")>>

\* --------------------------------------------------------------- C13
\* C13: StartSend, StopSend, StartPlayout or StopPlayout run while the
\* session is Active makes exactly one engine call, the one of its own name,
\* on the current channel, then reports through its own completion callback
\* the value true if that call returned kOk and false if it did not; it
\* leaves the channel handle, the sockets and the addresses alone.  With
\* local 127.0.0.1:10000 and remote 127.0.0.1:20000, StartSend after a
\* successful StartSession reports true when the engine accepts it.
ToggleOps == {"StartSend", "StopSend", "StartPlayout", "StopPlayout"}

C13_ToggleReportsEngineResult ==
  [][ \A op \in ToggleOps :
        (Running(op) /\ SessionActive) =>
          /\ \E ok \in BOOLEAN :
               taskLog' = <<Ev(op, channel_, ok, "")>>
                            \o Reported(CompletionOf(op), ok)
          /\ Len(EngineCalls(taskLog')) = 1
          /\ session' = session
          /\ process' = process ]_vars

\* The scenario: local 127.0.0.1:10000, remote 127.0.0.1:20000, the session
\* is Active, StartSend has just run, the engine returned kOk and the live
\* subscriber was told true.
C13_Witness ==
  /\ SessionActive
  /\ rtp_socket_.addr = SocketAddress(LocalIp, 10000)
  /\ rtcp_socket_.addr = SocketAddress(LocalIp, 10001)
  /\ rtp_remote_address_ = SocketAddress(LocalIp, 20000)
  /\ rtcp_remote_address_ = SocketAddress(LocalIp, 20001)
  /\ lastTask.op = "StartSend"
  /\ engine[channel_].sending
  /\ callback_
  /\ taskLog = <<Ev("StartSend", channel_, TRUE, ""),
                 Ev("OnStartSendCompleted", NoChannel, TRUE, "callback")>>

\* --------------------------------------------------------------- C14
\* C14: SetEncoder run with a name that is not among supported_codecs_, in
\* whatever state the session is, makes no engine call and changes nothing:
\* the send codec of every channel, the channel handle, the sockets and the
\* addresses are as before, and the process runs on.
InCatalog(name) ==
  \E i \in 1..Len(supported_codecs_) : supported_codecs_[i] = name

C14_UnknownEncoderIgnored ==
  [][ (Running("SetEncoder") /\ ~InCatalog(Head(queue).name)) =>
        /\ taskLog' = <<>>
        /\ engine' = engine
        /\ session' = session
        /\ process' = process ]_vars

\* SetEncoder("speex") has run on an Active session whose send codec is
\* opus, and opus it still is.
C14_Witness ==
  /\ SessionActive
  /\ lastTask.op = "SetEncoder"
  /\ lastTask.name = "speex"
  /\ taskLog = <<>>
  /\ engine[channel_].sendCodec = "opus"
  /\ engine[channel_].sendPayloadType = kOpus

\* --------------------------------------------------------------- C15
\* C15: SetEncoder or SetDecoders run while the session is not Active does
\* nothing: no engine call, no notification, no change of the channel
\* handle, the sockets, the addresses or the engine, and the process runs
\* on.
C15_CodecCallsIgnoredUnlessActive ==
  [][ \A op \in {"SetEncoder", "SetDecoders"} :
        (Running(op) /\ ~SessionActive) =>
          /\ taskLog' = <<>>
          /\ engine' = engine
          /\ session' = session
          /\ process' = process ]_vars

\* --------------------------------------------------------------- C16
\* C16: SetLocalAddress(ip, port) stores (ip, port) as the local rtp address
\* and (ip, port + 1) as the local rtcp address and changes nothing else;
\* SetRemoteAddress does the same for the remote side; and a StartSession in
\* which both binds succeed leaves the rtp socket bound to the local rtp
\* address and the rtcp socket bound to the local rtcp address stored then.
\* So the sockets end up at (ip, port) and (ip, port + 1) for whatever port
\* the setter was given.
Endpoint(ip, port) == [ip |-> ip, port |-> port]

C16_AddressesStoredAndBound ==
  [][ /\ Running("SetLocalAddress") =>
           /\ rtp_local_address_' =
                Endpoint(Head(queue).ip, Head(queue).port)
           /\ rtcp_local_address_' =
                Endpoint(Head(queue).ip, Head(queue).port + 1)
           /\ UNCHANGED <<channel_, rtp_socket_, rtcp_socket_,
                          rtp_remote_address_, rtcp_remote_address_,
                          engine, process>>
      /\ Running("SetRemoteAddress") =>
           /\ rtp_remote_address_' =
                Endpoint(Head(queue).ip, Head(queue).port)
           /\ rtcp_remote_address_' =
                Endpoint(Head(queue).ip, Head(queue).port + 1)
           /\ UNCHANGED <<channel_, rtp_socket_, rtcp_socket_,
                          rtp_local_address_, rtcp_local_address_,
                          engine, process>>
      /\ (Running("StartSession") /\ ~BindFailed(taskLog')) =>
           /\ rtp_socket_' = BoundSocket(rtp_local_address_)
           /\ rtcp_socket_' = BoundSocket(rtcp_local_address_) ]_vars

\* --------------------------------------------------------------- C17
\* C17: a SendRtp or SendRtcp call, from whichever thread and with whatever
\* length, zero included, returns true and only appends one task to the
\* worker's queue: a SendRtpPacket task for SendRtp, a SendRtcpPacket task
\* for SendRtcp, carrying the first length bytes of the buffer, in order
\* (none for length zero); the channel handle, the sockets, the addresses
\* and the engine are untouched by the call.  When the task runs later,
\* whatever the socket does, nothing goes back to the caller: the value
\* returned stays true and no notification is made.
SendOps == {"SendRtpPacket", "SendRtcpPacket"}

SendTaskOf(call) ==
  IF call = "SendRtp" THEN "SendRtpPacket" ELSE "SendRtcpPacket"

SendCallStep ==
  /\ Len(queue') > Len(queue)
  /\ queue'[Len(queue')].op \in SendOps

SendCallOnlyPosts ==
  SendCallStep =>
    LET posted == queue'[Len(queue')]
    IN /\ lastCall'.result = TRUE
       /\ Len(queue') = Len(queue) + 1
       /\ SubSeq(queue', 1, Len(queue)) = queue
       /\ posted.op = SendTaskOf(lastCall'.call)
       /\ Len(posted.packet) = lastCall'.length
       /\ \A i \in 1..lastCall'.length :
            posted.packet[i] = lastCall'.packet[i]
       /\ UNCHANGED <<session, engine, process, lastTask, taskLog>>

ResultSetOnlyByCalls == lastCall' # lastCall => SendCallStep

SendOutcomeStaysOnWorker ==
  \A op \in SendOps :
    Running(op) =>
      /\ lastCall' = lastCall
      /\ Notifications(taskLog') = <<>>

C17_SendAcceptsAndPostsCopy ==
  [][ /\ SendCallOnlyPosts
      /\ ResultSetOnlyByCalls
      /\ SendOutcomeStaysOnWorker ]_vars

\* SendRtcp was called with length zero while a one-byte rtp packet was still
\* queued: it returned true and both copies wait in the queue, in order.
C17_Witness ==
  /\ lastCall.call = "SendRtcp"
  /\ lastCall.length = 0
  /\ lastCall.result
  /\ Len(queue) = 2
  /\ queue[1].op = "SendRtpPacket" /\ queue[1].packet = <<128>>
  /\ queue[2].op = "SendRtcpPacket" /\ queue[2].packet = <<>>

\* --------------------------------------------------------------- C20
\* C20: a SendRtpPacket or SendRtcpPacket task that runs while the session
\* is not Active does nothing with a socket: it neither calls through an
\* empty socket pointer nor sends on a closed socket, and the process runs
\* on.
C20_SendTaskChecksLiveness ==
  [][ \A op \in SendOps :
        (Running(op) /\ ~SessionActive) =>
          /\ ~Has(taskLog', "NullDereference", FALSE)
          /\ ~Has(taskLog', "SendTo", TRUE)
          /\ ~Has(taskLog', "SendTo", FALSE)
          /\ process' = "running" ]_vars

\* --------------------------------------------------------------- C18
\* C18: whether callback_.lock() yields a subscriber changes nothing but the
\* notification.  Whatever a task does when it runs, with the subscriber
\* alive or gone, the handler can do with the subscriber in the other
\* condition too, from the same state: the same channel handle, sockets,
\* addresses, engine and process afterwards, and the same engine and socket
\* calls in the same order, the task log differing at most by the one
\* notification at its end.  With the subscriber gone no notification is
\* made at all.
CompletionKinds ==
  {"OnStartSessionCompleted", "OnStopSessionCompleted",
   "OnStartSendCompleted", "OnStopSendCompleted",
   "OnStartPlayoutCompleted", "OnStopPlayoutCompleted"}

\* What the task runs, the subscriber's presence and the log being given.
RunAs(task, subscriber, log) ==
  CASE task.op = "StartSession" -> StartSessionRun(subscriber, log)
    [] task.op = "StopSession" -> StopSessionRun(subscriber, log)
    [] task.op = "StartSend" -> StartSendRun(subscriber, log)
    [] task.op = "StopSend" -> StopSendRun(subscriber, log)
    [] task.op = "StartPlayout" -> StartPlayoutRun(subscriber, log)
    [] task.op = "StopPlayout" -> StopPlayoutRun(subscriber, log)
    [] OTHER -> Execute(task) /\ log = taskLog'

CallsOnly(log) == SelectSeq(log, LAMBDA e : ~IsNotification(e))

WithOneNotification(calls) ==
  {calls \o <<Ev(k, NoChannel, ok, "callback")>> :
     k \in CompletionKinds, ok \in BOOLEAN}

C18_SinkChangesOnlyNotification ==
  [][ (WorkerStep /\ process = "running") =>
        LET calls == CallsOnly(taskLog')
        IN /\ ~callback_ => taskLog' = calls
           /\ callback_ => RunAs(Head(queue), FALSE, calls)
           /\ ~callback_ =>
                \E log \in {calls} \cup WithOneNotification(calls) :
                  RunAs(Head(queue), TRUE, log) ]_vars

\* StopSession has torn a session down after the subscriber went away: the
\* sockets are closed and the channel released, and nobody was told.
C18_Witness ==
  /\ ~callback_
  /\ lastTask.op = "StopSession"
  /\ Has(taskLog, "ReleaseChannel", TRUE)
  /\ Has(taskLog, "Close", TRUE)
  /\ Notifications(taskLog) = <<>>
  /\ channel_ = NoChannel
  /\ process = "running"

\* --------------------------------------------------------------- C19
\* C19: while the subscriber is alive, a StartSession, StopSession,
\* StartSend, StopSend, StartPlayout or StopPlayout task that runs to its
\* end makes exactly one notification, through the callback of its own
\* operation, whichever path it takes: success, no channel, a failed bind,
\* a failed engine call.  The four setters make none.
NotifyingOps ==
  {"StartSession", "StopSession", "StartSend", "StopSend", "StartPlayout",
   "StopPlayout"}

QuietOps ==
  {"SetEncoder", "SetDecoders", "SetLocalAddress", "SetRemoteAddress"}

C19_OneMatchingNotification ==
  [][ /\ \A op \in NotifyingOps :
           (Running(op) /\ callback_ /\ process' = "running") =>
             /\ Len(Notifications(taskLog')) = 1
             /\ Notifications(taskLog')[1].ev = CompletionOf(op)
      /\ \A op \in QuietOps :
           Running(op) => Notifications(taskLog') = <<>> ]_vars

\* StopSession has run on an Active session with a live subscriber, the
\* engine refused to stop, and the one notification made is
\* OnStopSessionCompleted(false).
C19_Witness ==
  /\ callback_
  /\ lastTask.op = "StopSession"
  /\ SessionActive
  /\ EngineStopFailed(taskLog)
  /\ Notifications(taskLog) =
       <<Ev("OnStopSessionCompleted", NoChannel, FALSE, "callback")>>

\* --------------------------------------------------------------- C21
\* C21: a datagram arriving on the rtp (rtcp) socket appends exactly one
\* ReadRTPPacket (ReadRTCPPacket) task holding a copy of its bytes and
\* changes nothing else.  When that task runs with a channel present it
\* hands the packet to the engine exactly once, by ReceivedRTPPacket
\* (ReceivedRTCPPacket) on the channel the handle holds at that moment; when
\* it runs without a channel it makes no engine call and changes nothing.
\* Either way the channel handle, the sockets, the addresses and the
\* engine's channels are as before.
ReadOps == {"ReadRTPPacket", "ReadRTCPPacket"}

ReadTaskOf(slot) ==
  IF slot = "OnSignalReadRTPPacket" THEN "ReadRTPPacket" ELSE "ReadRTCPPacket"

InjectionOf(op) ==
  IF op = "ReadRTPPacket" THEN "ReceivedRTPPacket" ELSE "ReceivedRTCPPacket"

ArrivalStep ==
  /\ Len(queue') > Len(queue)
  /\ queue'[Len(queue')].op \in ReadOps

ArrivalOnlyPosts ==
  ArrivalStep =>
    LET posted == queue'[Len(queue')]
    IN /\ Len(queue') = Len(queue) + 1
       /\ SubSeq(queue', 1, Len(queue)) = queue
       /\ posted.op = ReadTaskOf(lastCall'.call)
       /\ Len(posted.packet) = lastCall'.length
       /\ \A i \in 1..lastCall'.length :
            posted.packet[i] = lastCall'.packet[i] % 256
       /\ SocketUsable(IF posted.op = "ReadRTPPacket" THEN rtp_socket_
                                                      ELSE rtcp_socket_)
       /\ UNCHANGED <<session, engine, process, lastTask, taskLog>>

ForwardedOnceOrDropped ==
  \A op \in ReadOps :
    Running(op) =>
      /\ channel_ # NoChannel =>
           /\ Len(EngineCalls(taskLog')) = 1
           /\ EngineCalls(taskLog')[1].ev = InjectionOf(op)
           /\ EngineCalls(taskLog')[1].ch = channel_
      /\ channel_ = NoChannel =>
           /\ taskLog' = <<>>
           /\ process' = process
      /\ session' = session
      /\ engine' = engine

C21_InboundForwardedOnce ==
  [][ArrivalOnlyPosts /\ ForwardedOnceOrDropped]_vars

\* A datagram arrived on the rtp socket, StopSession ran before its task,
\* and the task then dropped the copied packet.
C21_Witness ==
  /\ lastTask.op = "ReadRTPPacket"
  /\ lastTask.packet = <<128, 96>>
  /\ channel_ = NoChannel
  /\ rtp_socket_.exists /\ ~rtp_socket_.open
  /\ taskLog = <<>>
  /\ process = "running"

\* --------------------------------------------------------------- C22
\* C22: SetDecoders(names) run while the session is Active makes exactly one
\* engine call, SetReceiveCodecs on the current channel, and the map it
\* passes, which the engine then holds, has exactly one entry for each
\* supported codec named in names, under that codec's payload type (PCMU 0,
\* PCMA 8, G722 9, opus 96, ISAC 97, ILBC 98), and no other entry: names the
\* factory does not list and repeated names add nothing, and no two entries
\* share a key.
PayloadTable ==
  {<<0, "PCMU">>, <<8, "PCMA">>, <<9, "G722">>, <<96, "opus">>,
   <<97, "ISAC">>, <<98, "ILBC">>}

Selected(names) == {e \in PayloadTable : Found(names, e[2])}

C22_DecodersSetInOneCall ==
  [][ (Running("SetDecoders") /\ SessionActive) =>
        /\ Len(EngineCalls(taskLog')) = 1
        /\ EngineCalls(taskLog')[1].ev = "SetReceiveCodecs"
        /\ EngineCalls(taskLog')[1].ch = channel_
        /\ session' = session
        /\ process' = "running" =>
             /\ engine'[channel_].receiveCodecs = Selected(Head(queue).names)
             /\ \A e, f \in engine'[channel_].receiveCodecs :
                  e[1] = f[1] => e = f
             /\ \A c \in ChannelIds \ {channel_} : engine'[c] = engine[c] ]_vars

\* SetDecoders({"PCMU", "speex", "opus", "PCMU"}) has run on an Active
\* session: the engine holds PCMU under 0 and opus under 96, nothing else.
C22_Witness ==
  /\ SessionActive
  /\ lastTask.op = "SetDecoders"
  /\ lastTask.names = <<"PCMU", "speex", "opus", "PCMU">>
  /\ process = "running"
  /\ engine[channel_].receiveCodecs = {<<kPcmu, "PCMU">>, <<kOpus, "opus">>}

\* --------------------------------------------------------------- C23
\* C23: there is no cancellation.  With the worker scheduled fairly, every
\* task in the worker queue, whatever its kind (session operation, outbound
\* send task, inbound forwarding task), is eventually taken off the queue
\* and run by the worker, also when the client is destroyed with tasks
\* still queued.
C23_QueuedTasksRun ==
  []<><<VoipThreadRun>>_vars \/ <>[](queue = <<>>)

\* --------------------------------------------------------------- C24
\* C24: whatever StartSession and StopSession tasks have run, with binds and
\* engine stops failing or not, at most one engine channel is created and
\* not released, and if there is one it is the channel held in channel_.
C24_AtMostTheHeldChannel ==
  /\ Cardinality(Allocated(engine)) <= 1
  /\ Allocated(engine) \subseteq {channel_}

\* --------------------------------------------------------------- C25
\* C25: StopSession never works on an absent socket.  Whenever a StopSession
\* task finds a channel and the engine's StopSend and StopPlayout succeed,
\* so that the task goes on to close the sockets, the rtp socket and the
\* rtcp socket both exist, also after a StartSession whose bind failed.
C25_StopSessionFindsSockets ==
  [][ ( /\ Running("StopSession")
        /\ channel_ # NoChannel
        /\ EngineStopsSucceeded(taskLog') ) =>
        (rtp_socket_.exists /\ rtcp_socket_.exists) ]_vars

\* --------------------------------------------------------------- C26
\* C26: the five tasks of a session-on event run in the order they were
\* posted.  When its StartSession runs, the task before it was the event's
\* SetRemoteAddress, the stored local and remote addresses are the ones the
\* event gave, the event's SetEncoder and SetDecoders are next in the queue,
\* and a StartSession that succeeds binds the sockets to those local
\* addresses and holds a channel that was not allocated before.  SetEncoder
\* then runs right after StartSession and, when that succeeded, finds the
\* session Active, makes one SetSendCodec call on the new channel and
\* leaves the session as it is; SetDecoders runs right after SetEncoder and
\* on the Active session makes one SetReceiveCodecs call on that channel.
\* Nothing but the worker's tasks touches the session in between.
EventOf(remote_port) ==
  CHOOSE e \in SessionEvents : e.remote_port = remote_port

C26_SessionEventRunsInOrder ==
  [][ /\ Running("StartSession") =>
           LET e == EventOf(lastTask.port)
           IN  /\ lastTask.op = "SetRemoteAddress"
               /\ rtp_local_address_ = Endpoint(LocalIp, e.local_port)
               /\ rtcp_local_address_ = Endpoint(LocalIp, e.local_port + 1)
               /\ rtp_remote_address_ = Endpoint(LocalIp, e.remote_port)
               /\ rtcp_remote_address_ = Endpoint(LocalIp, e.remote_port + 1)
               /\ Len(queue) >= 3
               /\ queue[2] = [Task("SetEncoder") EXCEPT !.name = e.encoder]
               /\ queue[3] =
                    [Task("SetDecoders") EXCEPT !.names = e.decoders]
               /\ ~BindFailed(taskLog') =>
                    /\ rtp_socket_' = BoundSocket(rtp_local_address_)
                    /\ rtcp_socket_' = BoundSocket(rtcp_local_address_)
                    /\ channel_' \in ChannelIds \ Allocated(engine)
                    /\ SessionActive'
      /\ Running("SetEncoder") =>
           /\ lastTask.op = "StartSession"
           /\ session' = session
           /\ ~BindFailed(taskLog) =>
                /\ SessionActive
                /\ Len(taskLog') >= 1
                /\ EngineCalls(taskLog') = <<taskLog'[1]>>
                /\ taskLog'[1].ev = "SetSendCodec"
                /\ taskLog'[1].ch = channel_
                /\ process' = "running" =>
                     engine'[channel_].sendCodec = Head(queue).name
      /\ Running("SetDecoders") =>
           /\ lastTask.op = "SetEncoder"
           /\ session' = session
           /\ SessionActive =>
                /\ Len(taskLog') >= 1
                /\ EngineCalls(taskLog') = <<taskLog'[1]>>
                /\ taskLog'[1].ev = "SetReceiveCodecs"
                /\ taskLog'[1].ch = channel_
                /\ process' = "running" =>
                     engine'[channel_].receiveCodecs =
                       DecoderSpecs(Head(queue).names)
      /\ Len(queue') >= Len(queue) =>
           UNCHANGED <<session, engine, lastTask, taskLog>> ]_vars

\* The event (10002, 20002, PCMU, {G722}) has run to its end: the sockets
\* are bound to ports 10002 and 10003 and the channel in the handle sends
\* PCMU and receives G722.
C26_Witness ==
  /\ SessionActive
  /\ process = "running"
  /\ lastTask = [Task("SetDecoders") EXCEPT !.names = <<"G722">>]
  /\ rtp_socket_.addr = Endpoint(LocalIp, 10002)
  /\ rtcp_socket_.addr = Endpoint(LocalIp, 10003)
  /\ rtp_remote_address_ = Endpoint(LocalIp, 20002)
  /\ engine[channel_].sendCodec = "PCMU"
  /\ engine[channel_].receiveCodecs = {<<kG722, "G722">>}

\* --------------------------------------------------------------- C27
\* C27: for every rtp port p in 0..65535 given to SetLocalAddress or
\* SetRemoteAddress, the rtcp port stored by the setter is p + 1 and is a
\* port in 0..65535: no wrap to 0 and no truncation at p = 65535.
ValidPorts == 0..(PortModulus - 1)

C27_RtcpPortIsNextPort ==
  [][ /\ (Running("SetLocalAddress") /\ Head(queue).port \in ValidPorts) =>
           /\ rtcp_local_address_'.port = Head(queue).port + 1
           /\ rtcp_local_address_'.port \in ValidPorts
      /\ (Running("SetRemoteAddress") /\ Head(queue).port \in ValidPorts) =>
           /\ rtcp_remote_address_'.port = Head(queue).port + 1
           /\ rtcp_remote_address_'.port \in ValidPorts ]_vars

====
